---------------------------- MODULE Spec2Model ----------------------------
(***************************************************************************)
(* Movie-night picker (src/app.py): the event store kept in events.json,   *)
(* the TMDB helpers, and the three request handlers create_event,          *)
(* submit_picks and finalize_event.                                        *)
(*                                                                         *)
(* Encoding of Python values:                                              *)
(*   - None is the empty tuple <<>> and a present optional value x is the  *)
(*     one-element tuple <<x>> (Optional[str], Optional[dict], JSON null). *)
(*   - text that the code trims, measures, slices or tests for emptiness   *)
(*     (movie titles, names, tmdb ids, release dates) is a sequence of     *)
(*     one-character strings, "" being <<>>;                               *)
(*   - a JSON object is a TLA+ record holding the keys that are present;   *)
(*   - the text of events.json is the JSON value it denotes, a tree of     *)
(*     tagged nodes (JNull, JBool, JNumber, JString, JArray, JObject).     *)
(***************************************************************************)
EXTENDS Integers, Sequences, FiniteSets, TLC

VARIABLES
    file,          \* events.json: None while the file does not exist, else <<document>>
    request,       \* the request handled last: its route, event id, name and titles
    response,      \* the outcome the handler gave to that request
    calls,         \* the TMDB helper calls that request made, in order
    saved,         \* the event that request passed to save_event, None if it saved none
    enrichArgs,    \* pick enrichment on its own: the inputs drawn for it
    enrichResult,  \* pick enrichment on its own: what lines 626-631 produced
    threads        \* requests served at the same time: where each worker thread is

vars == <<file, request, response, calls, saved, enrichArgs, enrichResult, threads>>

-----------------------------------------------------------------------------
(* Bounds of the model *)

MaxPicks == 2       \* picks stored in the whole document
MaxTitleLen == 3    \* length of a raw movie title given to pick enrichment
MaxServed == 2      \* requests a thread serves when requests are served at the same time

-----------------------------------------------------------------------------
(* Python values *)

None == <<>>
Some(x) == <<x>>

Whitespace == {" "}
Chars == {" ", "a", "b"}

RECURSIVE lstrip(_)
lstrip(s) == IF s # <<>> /\ Head(s) \in Whitespace THEN lstrip(Tail(s)) ELSE s

RECURSIVE rstrip(_)
rstrip(s) == IF s # <<>> /\ s[Len(s)] \in Whitespace
             THEN rstrip(SubSeq(s, 1, Len(s) - 1))
             ELSE s

\* str.strip()
strip(s) == rstrip(lstrip(s))

\* s[:n]
Prefix(s, n) == SubSeq(s, 1, IF Len(s) < n THEN Len(s) ELSE n)

\* dict.get(key): None when the key is absent
Get(m, key) == IF key \in DOMAIN m THEN Some(m[key]) ELSE None

\* (opt or default) for a text value: None and "" are falsy
OrText(opt, default) == IF opt # None /\ opt[1] # <<>> THEN opt[1] ELSE default

\* truthiness of an Optional[str] form field: None and "" are falsy
Truthy(opt) == opt # None /\ opt[1] # <<>>

RECURSIVE SeqsUpTo(_, _)
SeqsUpTo(S, n) == IF n = 0 THEN {<<>>}
                  ELSE LET shorter == SeqsUpTo(S, n - 1)
                       IN shorter \cup {Append(s, c) : s \in shorter, c \in S}

-----------------------------------------------------------------------------
(* Persistence helpers *)

EmptyDict == [k \in {} |-> None]

\* JSON values, as json.dumps writes and json.loads reads them
JNull == [j |-> "null"]
JBool(b) == [j |-> "bool", v |-> b]
JNumber(n) == [j |-> "number", v |-> n]
JString(t) == [j |-> "string", v |-> t]
JArray(items) == [j |-> "array", v |-> items]
JObject(members) == [j |-> "object", v |-> members]

\* json.dumps of the values an event holds; None is written as null
dumps_optional_number(opt) == IF opt = None THEN JNull ELSE JNumber(opt[1])

dumps_optional_string(opt) == IF opt = None THEN JNull ELSE JString(opt[1])

dumps_movie(m) ==
    JObject([tmdb_id |-> dumps_optional_number(m.tmdb_id),
             title |-> JString(m.title),
             year |-> JString(m.year),
             poster_path |-> dumps_optional_string(m.poster_path),
             rating |-> dumps_optional_number(m.rating)])

dumps_pick(p) ==
    JObject([name |-> JString(p.name),
             movies |-> JArray([i \in 1..Len(p.movies) |-> dumps_movie(p.movies[i])])])

dumps_event(e) ==
    JObject([id |-> JString(e.id),
             title |-> JString(e.title),
             date |-> JString(e.date),
             picks |-> JArray([i \in 1..Len(e.picks) |-> dumps_pick(e.picks[i])]),
             finalized |-> JBool(e.finalized),
             selected_movie |-> IF e.selected_movie = None THEN JNull
                               ELSE dumps_movie(e.selected_movie[1])])

json_dumps(events) == JObject([k \in DOMAIN events |-> dumps_event(events[k])])

\* json.loads of such values; null is read as None
loads_scalar(node) == node.v

loads_optional_scalar(node) == IF node.j = "null" THEN None ELSE Some(loads_scalar(node))

loads_movie(node) ==
    [tmdb_id |-> loads_optional_scalar(node.v.tmdb_id),
     title |-> loads_scalar(node.v.title),
     year |-> loads_scalar(node.v.year),
     poster_path |-> loads_optional_scalar(node.v.poster_path),
     rating |-> loads_optional_scalar(node.v.rating)]

loads_pick(node) ==
    [name |-> loads_scalar(node.v.name),
     movies |-> [i \in 1..Len(node.v.movies.v) |-> loads_movie(node.v.movies.v[i])]]

loads_event(node) ==
    [id |-> loads_scalar(node.v.id),
     title |-> loads_scalar(node.v.title),
     date |-> loads_scalar(node.v.date),
     picks |-> [i \in 1..Len(node.v.picks.v) |-> loads_pick(node.v.picks.v[i])],
     finalized |-> loads_scalar(node.v.finalized),
     selected_movie |-> IF node.v.selected_movie.j = "null" THEN None
                       ELSE Some(loads_movie(node.v.selected_movie))]

json_loads(text) == [k \in DOMAIN text.v |-> loads_event(text.v[k])]

\* f is the file: None while it does not exist, else Some(its text)
load_events(f) == IF f # None THEN json_loads(f[1]) ELSE EmptyDict

\* Faulty variant of save_events: a record now in the file under an id that
\* is no key of events is kept.
save_events_keep_unloaded(events) ==
    LET now == IF file # None THEN json_loads(file[1]) ELSE EmptyDict
    IN Some(json_dumps([k \in DOMAIN events \cup DOMAIN now |->
                           IF k \in DOMAIN events THEN events[k] ELSE now[k]]))

save_events(events) == Some(json_dumps(events))

\* Faulty variant of get_event: an unknown id yields a new empty event
\* (as dict.setdefault would) instead of None.
get_event_or_new(f, event_id) ==
    IF event_id \in DOMAIN load_events(f)
    THEN Some(load_events(f)[event_id])
    ELSE Some([id |-> event_id, title |-> "", date |-> "", picks |-> <<>>,
               finalized |-> FALSE, selected_movie |-> None])

get_event(f, event_id) == Get(load_events(f), event_id)

\* Faulty variant of save_event: the document written holds the saved event
\* only (the load of line 47 left out).
save_event_alone(f, event) == save_events([k \in {event.id} |-> event])

\* Faulty variant of save_event: an id already in the store keeps its old record.
save_event_insert_only(f, event) ==
    LET events == load_events(f)
        id == event.id
    IN save_events([k \in DOMAIN events \cup {id} |->
                        IF k \in DOMAIN events THEN events[k] ELSE event])

save_event(f, event) ==
    LET events == load_events(f)
        id == event.id
    IN save_events([k \in DOMAIN events \cup {id} |->
                        IF k = id THEN event ELSE events[k]])

-----------------------------------------------------------------------------
(* The metadata service: what one HTTP exchange with TMDB can come to *)

ConnectionError == [kind |-> "ConnectionError"]   \* requests.get raises (network, timeout)
HTTPError == [kind |-> "HTTPError"]               \* raise_for_status raises (non-2xx)
JSONDecodeError == [kind |-> "JSONDecodeError"]   \* resp.json() raises (body is no JSON)
OkResponse(body) == [kind |-> "ok", body |-> body]

JsonDict(d) == [type |-> "dict", value |-> d]
JsonList == [type |-> "list"]                     \* valid JSON, but no object

\* catalog records; a key whose value is null reads like an absent key
FullRecord == [id |-> 603, title |-> <<"b", "a">>,
               release_date |-> <<"1", "9", "9", "9", "-", "0", "3">>,
               poster_path |-> "/p.jpg", vote_average |-> 8]
UntitledRecord == EmptyDict

FailureResponses == {ConnectionError, HTTPError, JSONDecodeError, OkResponse(JsonList)}

DetailsResponses ==
    FailureResponses \cup {OkResponse(JsonDict(m)) : m \in {FullRecord, UntitledRecord}}

SearchResponses ==
    FailureResponses
    \cup {OkResponse(JsonDict(EmptyDict))}
    \cup {OkResponse(JsonDict([results |-> r])) :
            r \in {<<>>, <<FullRecord>>, <<UntitledRecord, FullRecord>>}}

-----------------------------------------------------------------------------
(* TMDB helpers *)

\* The value returned, or raised |-> TRUE when an exception leaves tmdb_get.
tmdb_get(resp) == IF resp.kind = "ok"
                  THEN [raised |-> FALSE, value |-> resp.body]
                  ELSE [raised |-> TRUE]

\* The movie dict both helpers build from a catalog record m.
movie_dict(m, title) ==
    [tmdb_id |-> Get(m, "id"),
     title |-> title,
     year |-> Prefix(OrText(Get(m, "release_date"), <<>>), 4),
     poster_path |-> Get(m, "poster_path"),
     rating |-> Get(m, "vote_average")]

\* tmdb_id is a str here; the result is None or Some(movie)
tmdb_movie_details(tmdb_id, resp) ==
    IF tmdb_id = <<>> THEN None                             \* if not tmdb_id
    ELSE LET got == tmdb_get(resp)
         IN IF got.raised THEN None                       \* except Exception
            ELSE IF got.value.type # "dict" THEN None     \* m.get raises AttributeError
            ELSE LET m == got.value.value
                 IN Some(movie_dict(m, OrText(Get(m, "title"), <<>>)))

tmdb_search_first(raw, resp) ==
    LET title == strip(raw)
    IN IF Len(title) < 2 THEN None
       ELSE LET got == tmdb_get(resp)
            IN IF got.raised THEN None
               ELSE IF got.value.type # "dict" THEN None
               ELSE LET data == got.value.value
                        results == IF "results" \in DOMAIN data
                                   THEN data.results ELSE <<>>
                    IN IF results = <<>> THEN None
                       ELSE LET m == results[1]
                            IN Some(movie_dict(m, OrText(Get(m, "title"), title)))

-----------------------------------------------------------------------------
(* Pick enrichment, lines 626-631 (movie 1) and 633-637 (movie 2) *)

\* Faulty variant of bare_movie: the title is not trimmed.
bare_movie_untrimmed(raw) ==
    [title |-> raw, tmdb_id |-> None, poster_path |-> None,
     year |-> <<>>, rating |-> None]

bare_movie(raw) ==
    [title |-> strip(raw), tmdb_id |-> None, poster_path |-> None,
     year |-> <<>>, rating |-> None]

\* The movie stored for (raw title, optional tmdb id) when the details call
\* would be answered by dresp and the search call by sresp, and the helper
\* calls made on the way.
\* Faulty variant of enrich: the title search is tried before the lookup by id.
enrich_search_first(raw, tmdb_id, dresp, sresp) ==
    LET bySearch == tmdb_search_first(strip(raw), sresp)
        byId == IF bySearch = None /\ Truthy(tmdb_id)
                THEN tmdb_movie_details(tmdb_id[1], dresp) ELSE bySearch
        m == IF byId = None THEN bare_movie(raw) ELSE byId[1]
        log == <<[fn |-> "tmdb_search_first", arg |-> Some(strip(raw))]>>
               \o (IF bySearch = None /\ Truthy(tmdb_id)
                   THEN <<[fn |-> "tmdb_movie_details", arg |-> Some(tmdb_id[1])]>>
                   ELSE <<>>)
    IN [movie |-> m, calls |-> log]

enrich(raw, tmdb_id, dresp, sresp) ==
    LET byId == IF Truthy(tmdb_id) THEN tmdb_movie_details(tmdb_id[1], dresp) ELSE None
        bySearch == IF byId = None THEN tmdb_search_first(strip(raw), sresp) ELSE byId
        m == IF bySearch = None THEN bare_movie(raw) ELSE bySearch[1]
        log == (IF Truthy(tmdb_id)
                THEN <<[fn |-> "tmdb_movie_details", arg |-> Some(tmdb_id[1])]>>
                ELSE <<>>)
               \o (IF byId = None
                   THEN <<[fn |-> "tmdb_search_first", arg |-> Some(strip(raw))]>>
                   ELSE <<>>)
    IN [movie |-> m, calls |-> log]

\* Every outcome of enriching (raw, tmdb_id), over the service's possible answers.
enrich_outcomes(raw, tmdb_id) ==
    {enrich(raw, tmdb_id, dresp, sresp) :
        dresp \in DetailsResponses, sresp \in SearchResponses}

-----------------------------------------------------------------------------
(* Requests and their inputs *)

EventIds == {"e1", "e2"}                  \* values of uuid4().hex[:8], and of the path's event_id
EventTitles == {"Movie night"}
EventDates == {"2026-01-01"}
FormNames == {<<" ", "n">>}
\* movie 1 is typed or picked from the autocomplete list (which fills in the
\* hidden id); movie 2 is typed, its hidden id field left out or left empty
Movie1Titles == {<<" ">>, <<" ", "a", "b">>}
Movie1TmdbIds == {None, Some(<<"6", "0", "3">>)}
Movie2Titles == {<<>>, <<"b", " ">>}
Movie2TmdbIds == {None, Some(<<>>)}

TmdbIds == Movie1TmdbIds \cup Movie2TmdbIds

RawTitles == SeqsUpTo(Chars, MaxTitleLen)

\* Outcomes of a request, after section 7 of the specification; the code
\* answers NotFound with HTTP 404 and every other one with a 303 redirect.
\* "InternalError" is an exception that leaves the handler (HTTP 500).
Results == {"Created", "Submitted", "Finalized", "NotFound", "AlreadyFinalized",
            "InvalidInput", "NoSubmissions", "InternalError", "Results"}

NoRequest == [op |-> "none"]
NoResponse == [result |-> "none"]

TotalPicks(f) ==
    LET events == load_events(f)
        RECURSIVE Sum(_)
        Sum(S) == IF S = {} THEN 0
                  ELSE LET k == CHOOSE x \in S : TRUE
                       IN Len(events[k].picks) + Sum(S \ {k})
    IN Sum(DOMAIN events)

-----------------------------------------------------------------------------
(* Request handlers, each handled from start to end before the next *)

new_event(event_id, title, date) ==
    [id |-> event_id, title |-> title, date |-> date,
     picks |-> <<>>, finalized |-> FALSE, selected_movie |-> None]

create_event(event_id, title, date) ==
    /\ request' = [op |-> "create_event", title |-> title, date |-> date]
    /\ file' = save_event(file, new_event(event_id, title, date))
    /\ response' = [result |-> "Created", event_id |-> event_id]
    /\ saved' = Some(new_event(event_id, title, date))
    /\ calls' = <<>>
    /\ UNCHANGED <<enrichArgs, enrichResult, threads>>

new_pick_swapped(name, m1, m2) == [name |-> strip(name), movies |-> <<m2, m1>>]

new_pick(name, m1, m2) == [name |-> strip(name), movies |-> <<m1, m2>>]

\* Faulty variant of with_pick: the new pick is put in front.
with_pick_prepended(event, pick) == [event EXCEPT !.picks = <<pick>> \o @]

with_pick(event, pick) == [event EXCEPT !.picks = Append(@, pick)]

\* Faulty variant of titles_missing: the titles are tested without trimming.
titles_missing_untrimmed(movie1, movie2) == movie1 = <<>> \/ movie2 = <<>>

titles_missing(movie1, movie2) == strip(movie1) = <<>> \/ strip(movie2) = <<>>

\* Faulty variant of submit_check: the finalized test is left out.
submit_check_no_finalized(event, movie1, movie2) ==
    IF event = None THEN "NotFound"
    ELSE IF strip(movie1) = <<>> \/ strip(movie2) = <<>> THEN "InvalidInput"
    ELSE "Submitted"

\* Faulty variant of submit_check: the titles are tested before the finalized flag.
submit_check_titles_first(event, movie1, movie2) ==
    IF event = None THEN "NotFound"
    ELSE IF strip(movie1) = <<>> \/ strip(movie2) = <<>> THEN "InvalidInput"
    ELSE IF event[1].finalized THEN "AlreadyFinalized"
    ELSE "Submitted"

\* Lines 610-624: the checks of submit_picks in their order, "Submitted" when
\* all pass. event is get_event's result.
submit_check(event, movie1, movie2) ==
    IF event = None THEN "NotFound"
    ELSE IF event[1].finalized THEN "AlreadyFinalized"
    ELSE IF titles_missing(movie1, movie2) THEN "InvalidInput"
    ELSE "Submitted"

submit_picks(event_id, name, movie1, movie2, movie1_tmdb_id, movie2_tmdb_id) ==
    LET event == get_event(file, event_id)
        result == submit_check(event, movie1, movie2)
    IN /\ request' = [op |-> "submit_picks", event_id |-> event_id, name |-> name,
                      movie1 |-> movie1, movie2 |-> movie2]
       /\ response' = [result |-> result, event_id |-> event_id]
       /\ UNCHANGED <<enrichArgs, enrichResult, threads>>
       /\ IF result # "Submitted"
          THEN /\ calls' = <<>>
               /\ saved' = None
               /\ UNCHANGED file
          ELSE /\ TotalPicks(file) < MaxPicks
               /\ \E e1 \in enrich_outcomes(movie1, movie1_tmdb_id),
                     e2 \in enrich_outcomes(movie2, movie2_tmdb_id) :
                    LET pick == new_pick(name, e1.movie, e2.movie)
                    IN /\ file' = save_event(file, with_pick(event[1], pick))
                       /\ saved' = Some(with_pick(event[1], pick))
                       /\ calls' = e1.calls \o e2.calls

\* Faulty variant of all_movies: a built-in list (the one of movie_picker.py)
\* instead of the event's picks.
all_movies_default(picks) ==
    <<[title |-> <<"a">>, tmdb_id |-> None, poster_path |-> None,
       year |-> <<>>, rating |-> None]>>

\* Faulty variant of all_movies: a movie already in the pool is not added again.
RECURSIVE all_movies_distinct(_)
all_movies_distinct(picks) ==
    IF picks = <<>> THEN <<>>
    ELSE LET before == all_movies_distinct(SubSeq(picks, 1, Len(picks) - 1))
             m1 == picks[Len(picks)].movies[1]
             m2 == picks[Len(picks)].movies[2]
             seen(m) == \E k \in 1..Len(before) : before[k] = m
         IN before \o (IF seen(m1) THEN <<>> ELSE <<m1>>)
                   \o (IF seen(m2) \/ m2 = m1 THEN <<>> ELSE <<m2>>)

\* Lines 675-677: the movies of all picks, pick by pick
RECURSIVE all_movies(_)
all_movies(picks) ==
    IF picks = <<>> THEN <<>>
    ELSE all_movies(SubSeq(picks, 1, Len(picks) - 1)) \o picks[Len(picks)].movies

\* Faulty variant of finalized_with: the flag is set, the movie is not stored.
finalized_flag_only(event, movie) == [event EXCEPT !.finalized = TRUE]

finalized_with(event, movie) ==
    [event EXCEPT !.selected_movie = Some(movie), !.finalized = TRUE]

\* Faulty variant of finalize_check: the test for an empty picks list is left out.
finalize_check_no_empty(event) ==
    IF event = None THEN "NotFound"
    ELSE IF event[1].finalized THEN "AlreadyFinalized"
    ELSE "Finalized"

\* Lines 659-673: the checks of finalize_event in their order
finalize_check(event) ==
    IF event = None THEN "NotFound"
    ELSE IF event[1].finalized THEN "AlreadyFinalized"
    ELSE IF event[1].picks = <<>> THEN "NoSubmissions"
    ELSE "Finalized"

\* Lines 675-680: what random.choice may draw from the pool of an event,
\* with the event as it is saved for each draw
finalize_draws(event) ==
    LET pool == all_movies(event.picks)
    IN {[choice |-> i, event |-> finalized_with(event, pool[i])] : i \in 1..Len(pool)}

finalize_event(event_id) ==
    LET event == get_event(file, event_id)
        result == finalize_check(event)
    IN /\ request' = [op |-> "finalize_event", event_id |-> event_id]
       /\ calls' = <<>>
       /\ UNCHANGED <<enrichArgs, enrichResult, threads>>
       /\ IF result # "Finalized"
          THEN /\ response' = [result |-> result, event_id |-> event_id]
               /\ saved' = None
               /\ UNCHANGED file
          ELSE IF finalize_draws(event[1]) = {}
          THEN \* random.choice of an empty sequence raises IndexError
               /\ response' = [result |-> "InternalError", event_id |-> event_id]
               /\ saved' = None
               /\ UNCHANGED file
          ELSE \E draw \in finalize_draws(event[1]) :          \* random.choice
                 /\ file' = save_event(file, draw.event)
                 /\ saved' = Some(draw.event)
                 /\ response' = [result |-> result, event_id |-> event_id,
                                 choice |-> draw.choice]

-----------------------------------------------------------------------------
(* The autocomplete endpoint, lines 690-718 *)

MaxSuggestions == 8

SuggestResponses ==
    SearchResponses
    \cup {OkResponse(JsonDict([results |->
            [i \in 1..(MaxSuggestions + 1) |->
                IF i = 1 THEN UntitledRecord ELSE FullRecord]]))}

\* The dict tmdb_search builds from a catalog record m: the title is m.get("title")
suggestion_dict(m) ==
    [tmdb_id |-> Get(m, "id"),
     title |-> Get(m, "title"),
     year |-> Prefix(OrText(Get(m, "release_date"), <<>>), 4),
     poster_path |-> Get(m, "poster_path"),
     rating |-> Get(m, "vote_average")]

\* What the endpoint comes to: raised |-> TRUE when an exception leaves it
\* (nothing in it catches one), else the list under "results".
tmdb_search_results(q, resp) ==
    IF Len(strip(q)) < 2 THEN [raised |-> FALSE, results |-> <<>>]
    ELSE LET got == tmdb_get(resp)
         IN IF got.raised THEN [raised |-> TRUE]
            ELSE IF got.value.type # "dict" THEN [raised |-> TRUE]   \* data.get: AttributeError
            ELSE LET data == got.value.value
                     found == IF "results" \in DOMAIN data THEN data.results ELSE <<>>
                     first == Prefix(found, MaxSuggestions)
                 IN [raised |-> FALSE,
                     results |-> [i \in 1..Len(first) |-> suggestion_dict(first[i])]]

\* The endpoint answering the request q, the service answering resp
tmdb_search(q, resp) ==
    LET out == tmdb_search_results(q, resp)
    IN /\ response' = IF out.raised
                      THEN [result |-> "InternalError"]
                      ELSE [result |-> "Results", results |-> out.results]
       /\ UNCHANGED <<file, request, calls, saved, enrichArgs, enrichResult, threads>>

-----------------------------------------------------------------------------
(* The application: requests handled one at a time *)

\* FastAPI runs a handler declared with def in a thread of its pool
Threads == {1, 2}

\* A thread between two requests, having served n requests
Idle(n) == [pc |-> "idle", served |-> n]

CreateEvent ==
    \E event_id \in EventIds, title \in EventTitles, date \in EventDates :
        create_event(event_id, title, date)

SubmitPicks ==
    \E event_id \in EventIds, name \in FormNames,
       movie1 \in Movie1Titles, movie2 \in Movie2Titles,
       movie1_tmdb_id \in Movie1TmdbIds, movie2_tmdb_id \in Movie2TmdbIds :
        submit_picks(event_id, name, movie1, movie2, movie1_tmdb_id, movie2_tmdb_id)

FinalizeEvent == \E event_id \in EventIds : finalize_event(event_id)

Init ==
    /\ file = None
    /\ request = NoRequest
    /\ response = NoResponse
    /\ calls = <<>>
    /\ saved = None
    /\ enrichArgs = None
    /\ enrichResult = None
    /\ threads = [t \in Threads |-> Idle(0)]

Next == CreateEvent \/ SubmitPicks \/ FinalizeEvent

Spec == Init /\ [][Next]_vars

-----------------------------------------------------------------------------
(* The application with requests served at the same time.  A thread's steps
   are the points where a handler touches events.json: the read of get_event
   (with the checks and the enrichment that follow it, which touch local
   values only), the load of save_event, the write of save_event. *)

\* Line 48: events[event["id"]] = event
put_event(events, event) ==
    [k \in DOMAIN events \cup {event.id} |-> IF k = event.id THEN event ELSE events[k]]

at(t, pc) == threads[t].pc = pc

\* The thread is free to take a request
free(t) == at(t, "idle") /\ threads[t].served < MaxServed

goto(t, rec) ==
    /\ threads' = [threads EXCEPT ![t] = rec @@ [served |-> threads[t].served]]
    /\ UNCHANGED <<request, response, calls, saved, enrichArgs, enrichResult>>

\* Lines 353-361: the new event, up to the call of save_event
begin_create_event(t, event_id, title, date) ==
    /\ free(t)
    /\ goto(t, [pc |-> "save_event", op |-> "create_event", event_id |-> event_id,
                event |-> new_event(event_id, title, date)])
    /\ UNCHANGED file

\* Lines 610-644: get_event, the checks, the enrichment and the append
begin_submit_picks(t, event_id, name, movie1, movie2, movie1_tmdb_id, movie2_tmdb_id) ==
    LET event == get_event(file, event_id)
        result == submit_check(event, movie1, movie2)
    IN /\ free(t)
       /\ UNCHANGED file
       /\ IF result # "Submitted"
          THEN goto(t, [pc |-> "done", op |-> "submit_picks", event_id |-> event_id,
                        result |-> result])
          ELSE /\ TotalPicks(file) < MaxPicks
               /\ \E e1 \in enrich_outcomes(movie1, movie1_tmdb_id),
                     e2 \in enrich_outcomes(movie2, movie2_tmdb_id) :
                    goto(t, [pc |-> "save_event", op |-> "submit_picks",
                             event_id |-> event_id,
                             event |-> with_pick(event[1],
                                                 new_pick(name, e1.movie, e2.movie))])

\* Lines 659-680: get_event, the checks and the draw
begin_finalize_event(t, event_id) ==
    LET event == get_event(file, event_id)
        result == finalize_check(event)
    IN /\ free(t)
       /\ UNCHANGED file
       /\ IF result # "Finalized"
          THEN goto(t, [pc |-> "done", op |-> "finalize_event", event_id |-> event_id,
                        result |-> result])
          ELSE \E draw \in finalize_draws(event[1]) :
                 goto(t, [pc |-> "save_event", op |-> "finalize_event",
                          event_id |-> event_id, event |-> draw.event])

\* Line 47: events = load_events()
save_event_load(t) ==
    /\ at(t, "save_event")
    /\ goto(t, [pc |-> "save_events", op |-> threads[t].op,
                event_id |-> threads[t].event_id, event |-> threads[t].event,
                events |-> load_events(file)])
    /\ UNCHANGED file

\* Lines 48-49: events[event["id"]] = event; save_events(events)
save_event_write(t) ==
    /\ at(t, "save_events")
    /\ file' = save_events(put_event(threads[t].events, threads[t].event))
    /\ goto(t, [pc |-> "done", op |-> threads[t].op, event_id |-> threads[t].event_id,
                result |-> CASE threads[t].op = "create_event" -> "Created"
                             [] threads[t].op = "submit_picks" -> "Submitted"
                             [] OTHER -> "Finalized"])

\* The handler returns and the thread takes the next request
respond(t) ==
    /\ at(t, "done")
    /\ threads' = [threads EXCEPT ![t] = Idle(threads[t].served + 1)]
    /\ UNCHANGED <<file, request, response, calls, saved, enrichArgs, enrichResult>>

\* The forms sent at the same time carry no catalog id
BeginCreateEvent ==
    \E t \in Threads, event_id \in EventIds, title \in EventTitles, date \in EventDates :
        begin_create_event(t, event_id, title, date)

BeginSubmitPicks ==
    \E t \in Threads, event_id \in EventIds, name \in FormNames,
       movie1 \in Movie1Titles, movie2 \in Movie2Titles :
        begin_submit_picks(t, event_id, name, movie1, movie2, None, None)

BeginFinalizeEvent == \E t \in Threads, event_id \in EventIds : begin_finalize_event(t, event_id)

SaveEventLoad == \E t \in Threads : save_event_load(t)

SaveEventWrite == \E t \in Threads : save_event_write(t)

Respond == \E t \in Threads : respond(t)

NextConc ==
    \/ BeginCreateEvent
    \/ BeginSubmitPicks
    \/ BeginFinalizeEvent
    \/ SaveEventLoad
    \/ SaveEventWrite
    \/ Respond

SpecConc == Init /\ [][NextConc]_vars

-----------------------------------------------------------------------------
(* Pick enrichment as a function of its inputs and of the service's answers *)

InitEnrich ==
    /\ file = None
    /\ request = NoRequest
    /\ response = NoResponse
    /\ calls = <<>>
    /\ saved = None
    /\ enrichArgs \in {Some([raw |-> raw, tmdb_id |-> tmdb_id, dresp |-> d, sresp |-> s]) :
                         raw \in RawTitles, tmdb_id \in TmdbIds,
                         d \in DetailsResponses, s \in SearchResponses}
    /\ enrichResult = None
    /\ threads = [t \in Threads |-> Idle(0)]

Enrich ==
    /\ enrichResult = None
    /\ enrichResult' = Some(enrich(enrichArgs[1].raw, enrichArgs[1].tmdb_id,
                                   enrichArgs[1].dresp, enrichArgs[1].sresp))
    /\ UNCHANGED <<file, request, response, calls, saved, enrichArgs, threads>>

NextEnrich == Enrich

SpecEnrich == InitEnrich /\ [][NextEnrich]_vars

-----------------------------------------------------------------------------
(* The autocomplete endpoint as a function of its query and of the service's answer *)

InitSearch ==
    /\ file = None
    /\ request \in {[op |-> "tmdb_search", q |-> q, answer |-> resp] :
                       q \in RawTitles, resp \in SuggestResponses}
    /\ response = NoResponse
    /\ calls = <<>>
    /\ saved = None
    /\ enrichArgs = None
    /\ enrichResult = None
    /\ threads = [t \in Threads |-> Idle(0)]

TmdbSearch ==
    /\ response = NoResponse
    /\ tmdb_search(request.q, request.answer)

NextSearch == TmdbSearch

SpecSearch == InitSearch /\ [][NextSearch]_vars

-----------------------------------------------------------------------------
(* Properties of the event lifecycle, checked under Spec *)

Stored == load_events(file)

IsOpen(f, id) == id \in DOMAIN load_events(f) /\ ~load_events(f)[id].finalized

IsFinalized(f, id) == id \in DOMAIN load_events(f) /\ load_events(f)[id].finalized

\* The step handles a submit_picks or finalize_event request on event id.
OnEvent(id) ==
    /\ request'.op \in {"submit_picks", "finalize_event"}
    /\ request'.event_id = id

\* C1: in every reachable state of the store, every stored event has a
\* selected_movie exactly when its finalized flag is true.
C1_SelectedIffFinalized ==
    \A id \in DOMAIN Stored :
        (Stored[id].selected_movie # None) <=> (Stored[id].finalized = TRUE)

C1_Witness ==
    \E id, other \in DOMAIN Stored :
        /\ Stored[id].finalized /\ Stored[id].selected_movie # None
        /\ ~Stored[other].finalized /\ Stored[other].picks # <<>>

\* C2 (as claimed): over create, submit and finalize requests handled one at
\* a time, a stored finalized flag that is true is never false afterwards.
C2_FinalizedMonotonic ==
    [][\A id \in EventIds : IsFinalized(file, id) => IsFinalized(file', id)]_vars

\* C3: once an event is finalized, submit and finalize requests on it leave
\* its picks (and its finalized flag) as they were.
C3_PicksFrozen ==
    [][\A id \in EventIds :
         (OnEvent(id) /\ IsFinalized(file, id))
         => /\ IsFinalized(file', id)
            /\ load_events(file')[id].picks = load_events(file)[id].picks]_vars

C3_Witness ==
    /\ request.op = "submit_picks"
    /\ strip(request.movie1) # <<>> /\ strip(request.movie2) # <<>>
    /\ response.result = "AlreadyFinalized"
    /\ Len(Stored[request.event_id].picks) = 2

\* C4: a successful submit on an open event appends exactly one pick, that
\* request's, after the picks already stored; an unsuccessful one leaves
\* the picks as they were.
C4_AppendInCallOrder ==
    [][\A id \in EventIds :
         (request'.op = "submit_picks" /\ request'.event_id = id /\ IsOpen(file, id))
         => LET old == load_events(file)[id].picks
                new == load_events(file')[id].picks
            IN IF response'.result = "Submitted"
               THEN /\ Len(new) = Len(old) + 1
                    /\ SubSeq(new, 1, Len(old)) = old
                    /\ new[Len(new)].name = strip(request'.name)
                    /\ \E t1, t2 \in TmdbIds :
                         \E o1 \in enrich_outcomes(request'.movie1, t1),
                            o2 \in enrich_outcomes(request'.movie2, t2) :
                             new[Len(new)].movies = <<o1.movie, o2.movie>>
               ELSE new = old]_vars

C4_Witness ==
    /\ request.op = "submit_picks"
    /\ response.result = "Submitted"
    /\ Len(Stored[request.event_id].picks) = 2
    /\ Stored[request.event_id].picks[1] # Stored[request.event_id].picks[2]

\* C5: the selected_movie of a finalized event is one of the movies of that
\* event's stored picks.
C5_SelectedFromPicks ==
    \A id \in DOMAIN Stored :
        Stored[id].finalized
        => /\ Stored[id].selected_movie # None
           /\ \E i \in 1..Len(Stored[id].picks) :
                \E j \in 1..Len(Stored[id].picks[i].movies) :
                    Stored[id].picks[i].movies[j] = Stored[id].selected_movie[1]

C5_Witness ==
    \E id \in DOMAIN Stored :
        /\ Stored[id].finalized
        /\ Len(Stored[id].picks) = 2
        /\ Stored[id].selected_movie = Some(Stored[id].picks[2].movies[1])
        /\ Stored[id].picks[2].movies[1] # Stored[id].picks[1].movies[1]
        /\ Stored[id].picks[2].movies[1] # Stored[id].picks[1].movies[2]

\* C6: on an event stored as finalized, every submit (whatever its fields,
\* empty titles included) and every finalize fails with AlreadyFinalized and
\* leaves the store as it was.
C6_AlreadyFinalized ==
    [][\A id \in EventIds :
         (OnEvent(id) /\ IsFinalized(file, id))
         => /\ response'.result = "AlreadyFinalized"
            /\ file' = file]_vars

C6_Witness ==
    /\ request.op = "submit_picks"
    /\ strip(request.movie1) = <<>> /\ strip(request.movie2) = <<>>
    /\ response.result = "AlreadyFinalized"

\* C7: finalize on an open event without picks fails with NoSubmissions and
\* writes nothing: the event stays open, without a selected movie.
C7_NoSubmissions ==
    [][\A id \in EventIds :
         (/\ request'.op = "finalize_event" /\ request'.event_id = id
          /\ IsOpen(file, id) /\ load_events(file)[id].picks = <<>>)
         => /\ response'.result = "NoSubmissions"
            /\ file' = file
            /\ IsOpen(file', id)
            /\ load_events(file')[id].selected_movie = None]_vars

C7_Witness ==
    /\ request.op = "finalize_event"
    /\ response.result = "NoSubmissions"
    /\ IsOpen(file, request.event_id)

\* C8: submit on an open event with a title that is empty once trimmed fails
\* with InvalidInput, makes no metadata helper call and writes nothing.
C8_InvalidInputBeforeEnrichment ==
    [][\A id \in EventIds :
         (/\ request'.op = "submit_picks" /\ request'.event_id = id
          /\ IsOpen(file, id)
          /\ (strip(request'.movie1) = <<>> \/ strip(request'.movie2) = <<>>))
         => /\ response'.result = "InvalidInput"
            /\ calls' = <<>>
            /\ file' = file]_vars

C8_Witness ==
    /\ request.op = "submit_picks"
    /\ response.result = "InvalidInput"
    /\ request.movie1 # <<>> /\ strip(request.movie1) = <<>>
    /\ strip(request.movie2) # <<>>
    /\ calls = <<>>

\* C9: submit and finalize on an id that is no key of the store fail with
\* NotFound and leave the store, its set of ids included, as it was.
C9_NotFound ==
    [][\A id \in EventIds :
         (OnEvent(id) /\ id \notin DOMAIN load_events(file))
         => /\ response'.result = "NotFound"
            /\ file' = file]_vars

C9_Witness ==
    /\ request.op = "submit_picks"
    /\ response.result = "NotFound"
    /\ strip(request.movie1) # <<>> /\ strip(request.movie2) # <<>>
    /\ request.event_id \notin DOMAIN Stored
    /\ DOMAIN Stored # {}

-----------------------------------------------------------------------------
(* Properties of pick enrichment, checked under SpecEnrich *)

IsText(s) == DOMAIN s = 1..Len(s) /\ \A i \in 1..Len(s) : s[i] \in STRING

IsMovie(m) ==
    /\ DOMAIN m = {"tmdb_id", "title", "year", "poster_path", "rating"}
    /\ IsText(m.title)
    /\ IsText(m.year) /\ Len(m.year) <= 4
    /\ Len(m.tmdb_id) <= 1 /\ Len(m.poster_path) <= 1 /\ Len(m.rating) <= 1

\* C10: enrichment yields a movie whatever the title, the id and the
\* service's answers; when neither the lookup nor the search yields one, it
\* is the bare record with the trimmed title.
C10_EnrichAlwaysMovie ==
    enrichResult # None
    => LET a == enrichArgs[1]
           m == enrichResult[1].movie
           lookup == IF a.tmdb_id # None /\ a.tmdb_id[1] # <<>>
                     THEN tmdb_movie_details(a.tmdb_id[1], a.dresp)
                     ELSE None
           search == tmdb_search_first(a.raw, a.sresp)
       IN /\ IsMovie(m)
          /\ (lookup = None /\ search = None)
             => m = [title |-> strip(a.raw), tmdb_id |-> None,
                     poster_path |-> None, year |-> <<>>, rating |-> None]

C10_Witness ==
    /\ enrichResult # None
    /\ enrichArgs[1].raw = <<" ", "a", "b">>
    /\ enrichArgs[1].tmdb_id = Some(<<"6", "0", "3">>)
    /\ enrichArgs[1].dresp = ConnectionError
    /\ enrichArgs[1].sresp = HTTPError
    /\ enrichResult[1].movie.title = <<"a", "b">>
    /\ enrichResult[1].movie.tmdb_id = None
    /\ Len(enrichResult[1].calls) = 2

-----------------------------------------------------------------------------
(* Properties of the event store *)

\* C11: after a request has saved an event, loading that event's id yields
\* an event equal to the saved one in every field, whether the id was new to
\* the store or already in it.
C11_SaveLoadRoundTrip ==
    saved # None
    => LET loaded == load_events(file)
       IN /\ saved[1].id \in DOMAIN loaded
          /\ loaded[saved[1].id] = saved[1]
          /\ \A k \in {"id", "title", "date", "picks", "finalized", "selected_movie"} :
                loaded[saved[1].id][k] = saved[1][k]

\* a replace: the saved event has picks and a selected movie with every
\* kind of field value, and another event is stored beside it
C11_Witness ==
    /\ saved # None
    /\ saved[1].finalized
    /\ Len(saved[1].picks) = 2
    /\ saved[1].selected_movie[1].tmdb_id # None
    /\ \E i \in 1..2 : saved[1].picks[i].movies[2].tmdb_id = None
    /\ DOMAIN load_events(file) = EventIds

\* C12 (as claimed): the id create_event gives a new event is no id of the
\* store, so the events already stored stay as they were; the new event is
\* stored open, without picks.
C12_FreshUniqueId ==
    [][request'.op = "create_event"
       => LET old == load_events(file)
              new == load_events(file')
              id == response'.event_id
          IN /\ id \notin DOMAIN old
             /\ \A k \in DOMAIN old : k \in DOMAIN new /\ new[k] = old[k]
             /\ id \in DOMAIN new
             /\ ~new[id].finalized /\ new[id].picks = <<>>
             /\ new[id].selected_movie = None]_vars

-----------------------------------------------------------------------------
(* Properties of the metadata helpers *)

\* C13 (as claimed): the autocomplete search never fails: it answers with a
\* list of at most 8 results, the empty list when the trimmed query is
\* shorter than 2 characters or when the metadata call fails.
C13_SuggestionsNeverFail ==
    (request.op = "tmdb_search" /\ response # NoResponse)
    => /\ response.result = "Results"
       /\ Len(response.results) <= 8
       /\ Len(strip(request.q)) < 2 => response.results = <<>>

\* C14 (as claimed): every movie of every stored pick, and every selected
\* movie, has a non-empty title, whatever the metadata service answered.
C14_TitleAlwaysPresent ==
    \A id \in DOMAIN Stored :
        /\ \A i \in 1..Len(Stored[id].picks) :
             \A j \in 1..Len(Stored[id].picks[i].movies) :
                 Stored[id].picks[i].movies[j].title # <<>>
        /\ Stored[id].selected_movie # None
           => Stored[id].selected_movie[1].title # <<>>

\* C15: every stored pick holds exactly 2 movies, and the pick a successful
\* submit stored has the movie enriched from movie1 first and the movie
\* enriched from movie2 second.
C15_TwoMoviesInOrder ==
    /\ \A id \in DOMAIN Stored :
         \A i \in 1..Len(Stored[id].picks) :
             /\ Len(Stored[id].picks[i].movies) = 2
             /\ IsMovie(Stored[id].picks[i].movies[1])
             /\ IsMovie(Stored[id].picks[i].movies[2])
    /\ (request.op = "submit_picks" /\ response.result = "Submitted")
       => LET picks == Stored[request.event_id].picks
              last == picks[Len(picks)]
          IN /\ \E t1 \in TmdbIds : \E o1 \in enrich_outcomes(request.movie1, t1) :
                   last.movies[1] = o1.movie
             /\ \E t2 \in TmdbIds : \E o2 \in enrich_outcomes(request.movie2, t2) :
                   last.movies[2] = o2.movie

C15_Witness ==
    /\ request.op = "submit_picks" /\ response.result = "Submitted"
    /\ Len(Stored[request.event_id].picks) = 2
    /\ Stored[request.event_id].picks[2].movies[1].tmdb_id # None
    /\ Stored[request.event_id].picks[2].movies[2].tmdb_id = None
    /\ Stored[request.event_id].picks[2].movies[1].title
         # Stored[request.event_id].picks[2].movies[2].title

\* C16: enrichment takes the first source that succeeds, in a fixed order:
\* the lookup by id when an id is given and the lookup returns a movie, and
\* then the title search is not called; else the title search, called with
\* the trimmed title, when it returns a movie; else the bare-title movie.
C16_FirstSuccessWins ==
    enrichResult # None
    => LET a == enrichArgs[1]
           r == enrichResult[1]
           hasId == a.tmdb_id # None /\ a.tmdb_id[1] # <<>>
           lookup == IF hasId THEN tmdb_movie_details(a.tmdb_id[1], a.dresp) ELSE None
           search == tmdb_search_first(strip(a.raw), a.sresp)
           lookupCall == [fn |-> "tmdb_movie_details", arg |-> a.tmdb_id]
           searchCall == [fn |-> "tmdb_search_first", arg |-> Some(strip(a.raw))]
       IN /\ lookup # None
             => r.movie = lookup[1] /\ r.calls = <<lookupCall>>
          /\ lookup = None
             => /\ r.calls = (IF hasId THEN <<lookupCall>> ELSE <<>>) \o <<searchCall>>
                /\ search # None => r.movie = search[1]
                /\ search = None
                   => /\ r.movie.title = strip(a.raw)
                      /\ r.movie.tmdb_id = None

C16_Witness ==
    /\ enrichResult # None
    /\ enrichArgs[1].raw = <<" ", "a", "b">>
    /\ enrichArgs[1].tmdb_id = Some(<<"6", "0", "3">>)
    /\ enrichArgs[1].dresp = OkResponse(JsonDict(FullRecord))
    /\ enrichArgs[1].sresp = OkResponse(JsonDict([results |-> <<UntitledRecord, FullRecord>>]))
    /\ enrichResult[1].movie.title = <<"b", "a">>
    /\ enrichResult[1].movie.tmdb_id = Some(603)
    /\ Len(enrichResult[1].calls) = 1

-----------------------------------------------------------------------------
(* Properties of the draw *)

\* The i-th entry of the pool of picks: movie ((i-1) mod 2)+1 of pick ((i-1) div 2)+1
Entry(picks, i) == picks[((i - 1) \div 2) + 1].movies[((i - 1) % 2) + 1]

\* C17: for an event with n picks the draw is over 2n entries, in pick order
\* with movie 1 before movie 2 in a pick, duplicates kept: once a submit has
\* stored the n-th pick, a finalize passes its checks and may draw every one
\* of the entries 1..2n, and a successful finalize stores the entry it drew.
C17_PoolIsMultiset ==
    /\ []((request.op = "submit_picks" /\ response.result = "Submitted")
          => LET event == Stored[request.event_id]
             IN /\ finalize_check(Some(event)) = "Finalized"
                /\ \A i \in 1..(2 * Len(event.picks)) :
                     \E draw \in finalize_draws(event) :
                         /\ draw.choice = i
                         /\ draw.event.selected_movie = Some(Entry(event.picks, i)))
    /\ [][(request'.op = "finalize_event" /\ response'.result = "Finalized")
          => LET id == request'.event_id
                 picks == load_events(file)[id].picks
                 i == response'.choice
             IN /\ i \in 1..(2 * Len(picks))
                /\ load_events(file')[id].selected_movie = Some(Entry(picks, i))
                /\ load_events(file')[id].picks = picks]_vars

C17_Witness ==
    /\ request.op = "finalize_event" /\ response.result = "Finalized"
    /\ response.choice = 4
    /\ Len(Stored[request.event_id].picks) = 2
    /\ Stored[request.event_id].picks[1].movies[2] = Stored[request.event_id].picks[2].movies[2]
    /\ Stored[request.event_id].selected_movie = Some(Stored[request.event_id].picks[2].movies[2])

-----------------------------------------------------------------------------
(* Properties of requests served at the same time, checked under SpecConc *)

\* Thread t writes events.json for a request of kind op on event id.
Writes(t, op, id) ==
    /\ threads[t].pc = "save_events" /\ threads'[t].pc = "done"
    /\ threads[t].op = op /\ threads[t].event_id = id


\* C18 (as claimed): with requests interleaving between their read and their
\* write, once the store holds an event as finalized no write of a submit or
\* finalize request on that event changes its finalized flag, its
\* selected_movie or its picks.
C18_FinalizedImmutableInterleaved ==
    [][\A t \in Threads, id \in EventIds :
         (/\ Writes(t, "submit_picks", id) \/ Writes(t, "finalize_event", id)
          /\ IsFinalized(file, id))
         => /\ IsFinalized(file', id)
            /\ load_events(file')[id].selected_movie = load_events(file)[id].selected_movie
            /\ load_events(file')[id].picks = load_events(file)[id].picks]_vars

\* C19 (as claimed): every write of a submit request to an event stored as
\* open stores picks that have the picks stored before as a prefix, also
\* when two submit requests on the event interleave.
C19_PicksAppendOnlyInterleaved ==
    [][\A t \in Threads, id \in EventIds :
         (Writes(t, "submit_picks", id) /\ IsOpen(file, id))
         => LET old == load_events(file)[id].picks
                new == load_events(file')[id].picks
            IN /\ Len(new) >= Len(old)
               /\ SubSeq(new, 1, Len(old)) = old]_vars

\* C20: the save is a whole-document read-modify-write without a lock: the
\* write of a save stores the saved event and, for every other id, the
\* record (or the absence of one) that the saving thread loaded, whatever
\* the file holds by then, and the request reports success.
C20_UnlockedReadModifyWrite ==
    [][\A t \in Threads :
         (threads[t].pc = "save_events" /\ threads'[t].pc = "done")
         => /\ threads'[t].result \in {"Created", "Submitted", "Finalized"}
            /\ Get(load_events(file'), threads[t].event_id) = Some(threads[t].event)
            /\ \A k \in EventIds \ {threads[t].event_id} :
                 Get(load_events(file'), k) = Get(threads[t].events, k)]_vars

\* Both saves, for different events, have reported success, and the event of
\* one of them is not in the store: the other's write dropped it.
C20_Witness ==
    \E t, u \in Threads :
        /\ threads[t].pc = "done" /\ threads[t].result = "Created"
        /\ threads[u].pc = "done" /\ threads[u].result = "Created"
        /\ threads[t].event_id # threads[u].event_id
        /\ threads[t].event_id \notin DOMAIN Stored
        /\ threads[u].event_id \in DOMAIN Stored

-----------------------------------------------------------------------------
(* Frame of the requests handled one at a time *)

\* C21: handled one at a time, a submit or finalize on event A, successful
\* or not, leaves the set of stored ids and the record of every other event
\* as they were, and no request of any kind removes an id from the store.
C21_OnlyOwnRecordChanges ==
    [][/\ DOMAIN load_events(file) \subseteq DOMAIN load_events(file')
       /\ \A a \in EventIds :
            OnEvent(a)
            => /\ DOMAIN load_events(file') = DOMAIN load_events(file)
               /\ \A b \in DOMAIN load_events(file) \ {a} :
                    load_events(file')[b] = load_events(file)[b]]_vars

C21_Witness ==
    /\ request.op = "submit_picks" /\ response.result = "Submitted"
    /\ DOMAIN Stored = EventIds
    /\ \E b \in EventIds \ {request.event_id} :
         /\ Stored[b].finalized
         /\ Stored[b].picks # <<>>
    /\ Len(Stored[request.event_id].picks) = 1

=============================================================================
